---- MODULE Spec2Model ----
(***************************************************************************)
(* phone-journal server (src/server.go): the two Twilio webhooks /call and *)
(* /recording behind the signature and caller-whitelist middleware, and    *)
(* the detached recording pipeline (download, resample, transcribe,        *)
(* upload) started by the /recording handler.                              *)
(*                                                                         *)
(* One HTTP request is served at a time in the model (variable c, the      *)
(* gin.Context of the request being served); the handlers of different     *)
(* requests share no mutable state.  Pipeline goroutines (variable tasks)  *)
(* run concurrently with the request being served and with each other.     *)
(***************************************************************************)
EXTENDS Integers, Sequences, FiniteSets, TLC

VARIABLES c, tasks

vars == <<c, tasks>>

\* Bound: number of pipeline goroutines ever started in one behaviour.
MaxTasks == 2

-----------------------------------------------------------------------------
(* Constants of the program and of the libraries it calls.                 *)

whisperNumChans == 1
maxTitleLen == 32
recordingPath == "/recording"
callPath == "/call"

StatusOK == 200
StatusBadRequest == 400
StatusForbidden == 403
StatusInternalServerError == 500

\* gin: Context.Abort sets c.index to abortIndex, past every handler chain.
abortIndex == 63

\* cfg.ExternalHostname and cfg.CallerWhitelist
ExternalHostname == "journal.example"
Alice == "+15550001"
Mallory == "+15550002"
CallerWhitelist == <<Alice>>

RecordingUrlValue == "https://api.twilio.example/rec1"

-----------------------------------------------------------------------------
(* Requests.  PostForm maps each key present in the body to the non-empty  *)
(* sequence of its values (url.Values).                                    *)

PostForms ==
    { ("From" :> <<Alice>>)   @@ ("RecordingStatus" :> <<"completed">>) @@ ("RecordingUrl" :> <<RecordingUrlValue>>),
      ("From" :> <<Mallory>>) @@ ("RecordingStatus" :> <<"completed">>) @@ ("RecordingUrl" :> <<RecordingUrlValue>>),
      ("From" :> <<Alice>>)   @@ ("RecordingStatus" :> <<"failed">>)    @@ ("RecordingUrl" :> <<RecordingUrlValue>>),
      ("From" :> <<Mallory>>) @@ ("RecordingStatus" :> <<"failed">>)    @@ ("RecordingUrl" :> <<RecordingUrlValue>>),
      ("RecordingStatus" :> <<"completed">>) @@ ("RecordingUrl" :> <<RecordingUrlValue>>),
      ("From" :> <<Alice>>)   @@ ("RecordingStatus" :> <<"completed">>),
      ("From" :> <<Alice>>)   @@ ("RecordingUrl" :> <<RecordingUrlValue>>),
      ("From" :> <<Alice, Mallory>>) @@ ("RecordingStatus" :> <<"completed">>) @@ ("RecordingUrl" :> <<RecordingUrlValue>>),
      ("From" :> <<Alice>>)   @@ ("RecordingStatus" :> <<"completed", "failed">>) @@ ("RecordingUrl" :> <<RecordingUrlValue>>) }

\* url.Values.Get: the first value of the key, "" when the key is absent.
Get(form, key) ==
    IF key \in DOMAIN form /\ Len(form[key]) > 0 THEN form[key][1] ELSE ""

\* The URL the validator signs: "https://" + hostname + c.Request.URL.Path
SignedUrl(hostname, path) == <<"https://", hostname, path>>

\* Twilio's signature over a URL and the key/value pairs of the body.  The
\* HMAC under cfg.TwilioAuthToken is kept as the pair it was computed from:
\* two signatures are equal exactly when URL and pairs are equal.
Signature(url, pairs) == [url |-> url, pairs |-> pairs]

\* What Twilio signs for a form: every key with every one of its values.
FormPairs(form) ==
    UNION { { <<k, form[k][i]>> : i \in 1..Len(form[k]) } : k \in DOMAIN form }

ParamPairs(params) == { <<k, params[k]>> : k \in DOMAIN params }

\* Variant of Validate: the signature is checked against the parameters only,
\* not against the URL of the endpoint.
Validate_IgnoresUrl(url, params, signature) ==
    signature.pairs = ParamPairs(params) /\ signature.url # <<>>

\* validator.Validate(url, params, signature)
Validate(url, params, signature) ==
    signature = Signature(url, ParamPairs(params))

OtherPath(path) == IF path = callPath THEN recordingPath ELSE callPath

\* The X-Twilio-Signature header of a request: Twilio's own signature, a
\* signature replayed from the other endpoint, or none (Header.Get gives "").
NoSignature == [url |-> <<>>, pairs |-> {}]

SignatureHeaders(path, form) ==
    { Signature(SignedUrl(ExternalHostname, path), FormPairs(form)),
      Signature(SignedUrl(ExternalHostname, OtherPath(path)), FormPairs(form)),
      NoSignature }

\* bodyMalformed: the raw body also holds a pair that ParseForm cannot
\* decode; ParseForm then returns an error (which every caller ignores) and
\* PostForm holds the pairs that did decode.
Requests ==
    UNION { { [path |-> p, form |-> f, signature |-> s, bodyMalformed |-> m] :
                s \in SignatureHeaders(p, f), m \in BOOLEAN } :
            p \in {callPath, recordingPath}, f \in PostForms }

NoRequest == [path |-> "", form |-> [k \in {} |-> <<>>], signature |-> NoSignature, bodyMalformed |-> FALSE]

-----------------------------------------------------------------------------
(* gin.Context and its response writer.                                    *)
(*   index       c.index, the position in the handler chain (-1 at start)  *)
(*   line        position inside the /recording handler between its two    *)
(*               steps (the go statement and the response)                 *)
(*   wstatus     the writer's pending status code (200 by default)         *)
(*   status      the status code sent on the wire, 0 while no header sent  *)
(*   header      the pending Content-Type header, "" while unset           *)
(*   contentType the Content-Type sent on the wire                         *)
(*   body        the chunks written to the response body, in order         *)
(*   errors      c.Errors                                                  *)
(*   task        index in tasks of the goroutine this request started, or 0*)
(*   ran         the handlers gin has called for this request, in order    *)

NewContext(req) ==
    [req |-> req, index |-> -1, line |-> "", wstatus |-> StatusOK, status |-> 0,
     header |-> "", contentType |-> "", body |-> <<>>, errors |-> <<>>, task |-> 0,
     ran |-> <<>>]

\* The chain registered for both routes:
\* signatureChecker, whitelistChecker, the route's handler.
NumHandlers == 3
signatureCheckerIndex == 0
whitelistCheckerIndex == 1
routeHandlerIndex == 2

\* c.Request.ParseForm(): PostForm is the decoded pairs; the error for a
\* malformed pair is returned and dropped by every caller.
ParseForm(req) == [PostForm |-> req.form, err |-> req.bodyMalformed]

\* c.Status(code): after the header is on the wire gin only logs a warning.
Status(ctx, code) ==
    IF ctx.status = 0 THEN [ctx EXCEPT !.wstatus = code] ELSE ctx

\* c.Writer.WriteHeaderNow(): sends status and headers once.
WriteHeaderNow(ctx) ==
    IF ctx.status = 0
    THEN [ctx EXCEPT !.status = ctx.wstatus, !.contentType = ctx.header]
    ELSE ctx

\* c.Header(key, value) for Content-Type
Header(ctx, value) == [ctx EXCEPT !.header = value]

\* c.String(code, text): sets the status, sets Content-Type to text/plain
\* unless one is already set, then writes the header (if not yet sent) and
\* appends text to the body.
String(ctx, code, text) ==
    LET s == Status(ctx, code)
        h == IF s.header = "" THEN [s EXCEPT !.header = "text/plain"] ELSE s
        w == WriteHeaderNow(h)
    IN  [w EXCEPT !.body = Append(w.body, text)]

\* c.Abort()
Abort(ctx) == [ctx EXCEPT !.index = abortIndex]

\* c.AbortWithStatus(code)
AbortWithStatus(ctx, code) == Abort(WriteHeaderNow(Status(ctx, code)))

\* c.AbortWithError(code, err)
AbortWithError(ctx, code, err) ==
    LET a == AbortWithStatus(ctx, code)
    IN  [a EXCEPT !.errors = Append(a.errors, err)]

\* The handler gin runs next: Context.Next() increments c.index and calls
\* handlers[c.index] while c.index < len(handlers).  A handler that calls
\* c.Next() itself and a handler that simply returns both hand control to
\* handlers[c.index+1]; only Abort (index = abortIndex) ends the chain.
Serving == c.req.path # ""
NextHandler == c.index + 1
Running(i) == Serving /\ c.line = "" /\ NextHandler = i /\ i < NumHandlers
Finished == Serving /\ c.line = "" /\ NextHandler >= NumHandlers
Enter(ctx) == [ctx EXCEPT !.index = ctx.index + 1, !.ran = Append(ctx.ran, ctx.index + 1)]

\* twiml.Voice(elements): the XML document of the verbs, and the marshalling
\* error (none for the fixed verbs the server passes).
twimlVoice(elements) == [xml |-> [doc |-> "Response", content |-> elements], err |-> FALSE]

VoiceReject == [verb |-> "Reject", attr |-> <<>>]
VoiceSay == [verb |-> "Say", attr |-> <<"What's on your mind? This call is recorded.">>]
VoiceRecord == [verb |-> "Record", attr |-> <<"https://", ExternalHostname, recordingPath>>]

RejectDirective == twimlVoice(<<VoiceReject>>).xml
RecordDirective == twimlVoice(<<VoiceSay, VoiceRecord>>).xml
Thanks == [doc |-> "text", content |-> <<[verb |-> "Thanks!", attr |-> <<>>]>>]

-----------------------------------------------------------------------------
(* The middleware and the route handlers.                                  *)

\* Variant of checkTwilioSignature: a bad signature sets the 403 status with
\* c.Status and writes the header, without aborting the chain.
checkTwilioSignature_StatusOnly ==
    /\ Running(signatureCheckerIndex)
    /\ LET ctx == Enter(c)
           url == SignedUrl(ExternalHostname, ctx.req.path)
           signature == ctx.req.signature
           PostForm == ParseForm(ctx.req).PostForm
       IN  c' = IF \E key \in DOMAIN PostForm : Len(PostForm[key]) # 1
                THEN AbortWithStatus(ctx, StatusBadRequest)
                ELSE LET params == [key \in DOMAIN PostForm |-> PostForm[key][1]]
                     IN  IF ~Validate(url, params, signature)
                         THEN WriteHeaderNow(Status(ctx, StatusForbidden))
                         ELSE ctx
    /\ UNCHANGED tasks

\* Variant of checkTwilioSignature: a field with several values is coerced
\* to its first value instead of being refused.
checkTwilioSignature_FirstValue ==
    /\ Running(signatureCheckerIndex)
    /\ LET ctx == Enter(c)
           url == SignedUrl(ExternalHostname, ctx.req.path)
           signature == ctx.req.signature
           PostForm == ParseForm(ctx.req).PostForm
           params == [key \in DOMAIN PostForm |-> PostForm[key][1]]
       IN  c' = IF ~Validate(url, params, signature)
                THEN AbortWithStatus(ctx, StatusForbidden)
                ELSE ctx
    /\ UNCHANGED tasks

\* checkTwilioSignature (the returned gin.HandlerFunc)
checkTwilioSignature ==
    /\ Running(signatureCheckerIndex)
    /\ LET ctx == Enter(c)
           url == SignedUrl(ExternalHostname, ctx.req.path)
           signature == ctx.req.signature
           PostForm == ParseForm(ctx.req).PostForm
       IN  c' = IF \E key \in DOMAIN PostForm : Len(PostForm[key]) # 1
                THEN AbortWithStatus(ctx, StatusBadRequest)
                ELSE LET params == [key \in DOMAIN PostForm |-> PostForm[key][1]]
                     IN  IF ~Validate(url, params, signature)
                         THEN AbortWithStatus(ctx, StatusForbidden)
                         ELSE ctx
    /\ UNCHANGED tasks

\* allowed: the map checkCallerWhitelist builds from cfg.CallerWhitelist
allowed == { CallerWhitelist[i] : i \in 1..Len(CallerWhitelist) }

\* checkCallerWhitelist (the returned gin.HandlerFunc).  The branch for a
\* caller that is not allowed writes the reject TwiML and returns: it calls
\* neither c.Abort nor c.Next.
checkCallerWhitelist ==
    /\ Running(whitelistCheckerIndex)
    /\ LET ctx == Enter(c)
           caller == Get(ParseForm(ctx.req).PostForm, "From")
           twimlResult == twimlVoice(<<VoiceReject>>)
       IN  c' = IF caller \notin allowed
                THEN IF twimlResult.err
                     THEN AbortWithError(ctx, StatusInternalServerError, "twiml")
                     ELSE String(Header(ctx, "text/xml"), StatusOK, twimlResult.xml)
                ELSE ctx
    /\ UNCHANGED tasks

\* router.POST("/call", ...) handler
callHandler ==
    /\ Running(routeHandlerIndex)
    /\ c.req.path = callPath
    /\ LET ctx == Enter(c)
           twimlResult == twimlVoice(<<VoiceSay, VoiceRecord>>)
       IN  c' = IF twimlResult.err
                THEN AbortWithError(ctx, StatusInternalServerError, "twiml")
                ELSE String(Header(ctx, "text/xml"), StatusOK, twimlResult.xml)
    /\ UNCHANGED tasks

-----------------------------------------------------------------------------
(* The recording pipeline: one goroutine per `go processRecording`.        *)

\* A Go string is a sequence of bytes in UTF-8.  An ASCII byte is written as
\* its character; "C3" "A9" are the two bytes of U+00E9 and "EF" "BF" "BD"
\* the three bytes of U+FFFD.
Ellipsis == <<".", ".", ".">>

\* whisper.SampleRate
whisperSampleRate == 16000

\* What a fetched body can hold: a WAV file with its format and the
\* segments the engine recognises in it, or bytes that are no WAV file.
Recordings ==
    { [wav |-> TRUE,  NumChannels |-> 1, SampleRate |-> 44100, Precision |-> 2,
       speech |-> << <<"M", "i", "l", "k", ".">>, <<" ", "B", "o", "b">> >>],
      [wav |-> TRUE,  NumChannels |-> 2, SampleRate |-> 44100, Precision |-> 2,
       speech |-> << <<"H", "i">> >>],
      [wav |-> FALSE, NumChannels |-> 0, SampleRate |-> 0, Precision |-> 0,
       speech |-> << >>] }

NoAudio == [wav |-> FALSE, NumChannels |-> 0, SampleRate |-> 0, Precision |-> 0, speech |-> << >>]

(*   pc         where processRecording stands: the stage it runs next, or  *)
(*              "segments" (inside transcribeRecording's loop), "done",    *)
(*              "failed"                                                   *)
(*   url        the url argument                                           *)
(*   statusCode res.StatusCode of the fetch, 0 while there is no response  *)
(*   bodyOpen   the HTTP response body of the fetch is open                *)
(*   recording, resampled   the results of the first two stages            *)
(*   emitted    the segments NextSegment has returned                      *)
(*   sb         the strings.Builder of transcribeRecording                 *)
(*   transcript the result of transcribeRecording                          *)
(*   stages     the stage functions processRecording has called            *)
(*   calls      the external calls made (HTTP GET, engine, notes service)  *)
(*   pages      the CreatePage parameters sent to the notes service        *)
(*   err        the error processRecording printed, "" if none             *)
NewTask(url) ==
    [pc |-> "download", url |-> url, statusCode |-> 0, bodyOpen |-> FALSE,
     recording |-> NoAudio, resampled |-> NoAudio,
     emitted |-> <<>>, sb |-> <<>>, transcript |-> <<>>,
     stages |-> <<>>, calls |-> <<>>, pages |-> <<>>, err |-> ""]

Fail(t, e) == [t EXCEPT !.pc = "failed", !.err = e]

\* Variant of the /recording handler: RecordingStatus is not checked.
recordingHandler_NoStatusCheck ==
    /\ Running(routeHandlerIndex)
    /\ c.req.path = recordingPath
    /\ LET ctx == Enter(c)
           PostForm == ParseForm(ctx.req).PostForm
           recordingUrl == Get(PostForm, "RecordingUrl")
       IN  /\ tasks' = Append(tasks, NewTask(recordingUrl))
           /\ c' = [ctx EXCEPT !.line = "respond", !.task = Len(tasks) + 1]

\* Variant of the /recording handler: the response is written first and the
\* goroutine is not started by the time it is.
recordingHandler_AckFirst ==
    /\ Running(routeHandlerIndex)
    /\ c.req.path = recordingPath
    /\ LET ctx == Enter(c)
           PostForm == ParseForm(ctx.req).PostForm
           status == Get(PostForm, "RecordingStatus")
       IN  IF status # "completed"
           THEN /\ c' = AbortWithError(ctx, StatusBadRequest, "incomplete recording")
                /\ UNCHANGED tasks
           ELSE /\ c' = String(ctx, StatusOK, Thanks)
                /\ UNCHANGED tasks

\* Variant of the /recording handler: the go statement is executed twice.
recordingHandler_LaunchesTwice ==
    /\ Running(routeHandlerIndex)
    /\ c.req.path = recordingPath
    /\ LET ctx == Enter(c)
           PostForm == ParseForm(ctx.req).PostForm
           status == Get(PostForm, "RecordingStatus")
           recordingUrl == Get(PostForm, "RecordingUrl")
       IN  IF status # "completed"
           THEN /\ c' = AbortWithError(ctx, StatusBadRequest, "incomplete recording")
                /\ UNCHANGED tasks
           ELSE /\ tasks' = Append(Append(tasks, NewTask(recordingUrl)), NewTask(recordingUrl))
                /\ c' = [ctx EXCEPT !.line = "respond", !.task = Len(tasks) + 1]

\* router.POST(recordingPath, ...) handler, up to and including the go
\* statement (lines 84-93).
recordingHandler ==
    /\ Running(routeHandlerIndex)
    /\ c.req.path = recordingPath
    /\ LET ctx == Enter(c)
           PostForm == ParseForm(ctx.req).PostForm
           status == Get(PostForm, "RecordingStatus")
           recordingUrl == Get(PostForm, "RecordingUrl")
       IN  IF status # "completed"
           THEN /\ c' = AbortWithError(ctx, StatusBadRequest, "incomplete recording")
                /\ UNCHANGED tasks
           ELSE /\ tasks' = Append(tasks, NewTask(recordingUrl))
                /\ c' = [ctx EXCEPT !.line = "respond", !.task = Len(tasks) + 1]

\* Variant of the response step: the handler waits for the pipeline to end
\* before it answers.
recordingRespond_WaitsForPipeline ==
    /\ Serving
    /\ c.line = "respond"
    /\ tasks[c.task].pc \in {"done", "failed"}
    /\ c' = String([c EXCEPT !.line = ""], StatusOK, Thanks)
    /\ UNCHANGED tasks

\* The rest of the handler: c.String(http.StatusOK, "Thanks!") (line 94).
recordingRespond ==
    /\ Serving
    /\ c.line = "respond"
    /\ c' = String([c EXCEPT !.line = ""], StatusOK, Thanks)
    /\ UNCHANGED tasks

\* The framework accepts the next request and builds its context.
ServeHTTP(req) ==
    /\ ~Serving \/ Finished
    /\ Len(tasks) < MaxTasks
    /\ c' = NewContext(req)
    /\ UNCHANGED tasks

\* Variant of downloadRecording: the status code of the response is not
\* checked, whatever body came back is read as the recording.
downloadRecording_IgnoresStatus(i) ==
    /\ i \in 1..Len(tasks)
    /\ tasks[i].pc = "download"
    /\ LET t == [tasks[i] EXCEPT !.stages = Append(@, "downloadRecording"),
                                 !.calls = Append(@, "GET")]
       IN  \/ tasks' = [tasks EXCEPT ![i] = Fail(t, "do")]
           \/ /\ t.url # ""
              /\ \E code \in {StatusOK, 404}, readErr \in BOOLEAN, closeErr \in BOOLEAN, r \in Recordings :
                   LET res == [t EXCEPT !.statusCode = code, !.bodyOpen = TRUE]
                       closed == [res EXCEPT !.bodyOpen = FALSE]
                   IN  tasks' = [tasks EXCEPT ![i] =
                          IF readErr THEN Fail(res, "read")
                          ELSE IF closeErr THEN Fail(closed, "close")
                          ELSE [closed EXCEPT !.pc = "resample", !.recording = r]]
    /\ UNCHANGED c

\* Variant of downloadRecording: client.Do answers for the empty URL as for
\* any other.
downloadRecording_AnyUrl(i) ==
    /\ i \in 1..Len(tasks)
    /\ tasks[i].pc = "download"
    /\ LET t == [tasks[i] EXCEPT !.stages = Append(@, "downloadRecording"),
                                 !.calls = Append(@, "GET")]
       IN  \/ tasks' = [tasks EXCEPT ![i] = Fail(t, "do")]
           \/ \E code \in {StatusOK, 404}, readErr \in BOOLEAN, closeErr \in BOOLEAN, r \in Recordings :
                   LET res == [t EXCEPT !.statusCode = code, !.bodyOpen = TRUE]
                       closed == [res EXCEPT !.bodyOpen = FALSE]
                   IN  tasks' = [tasks EXCEPT ![i] =
                          IF res.statusCode # StatusOK THEN Fail(res, "unexpected status code")
                          ELSE IF readErr THEN Fail(res, "read")
                          ELSE IF closeErr THEN Fail(closed, "close")
                          ELSE [closed EXCEPT !.pc = "resample", !.recording = r]]
    /\ UNCHANGED c

\* downloadRecording, as called by processRecording (lines 101-105).
\* client.Do fails for a URL without scheme (the empty RecordingUrl) and may
\* fail for any URL; otherwise the provider answers with some status, the
\* body read and the Close succeed or fail.  Only the path through line 147
\* calls res.Body.Close().
downloadRecording(i) ==
    /\ i \in 1..Len(tasks)
    /\ tasks[i].pc = "download"
    /\ LET t == [tasks[i] EXCEPT !.stages = Append(@, "downloadRecording"),
                                 !.calls = Append(@, "GET")]
       IN  \/ tasks' = [tasks EXCEPT ![i] = Fail(t, "do")]
           \/ /\ t.url # ""
              /\ \E code \in {StatusOK, 404}, readErr \in BOOLEAN, closeErr \in BOOLEAN, r \in Recordings :
                   LET res == [t EXCEPT !.statusCode = code, !.bodyOpen = TRUE]
                       closed == [res EXCEPT !.bodyOpen = FALSE]
                   IN  tasks' = [tasks EXCEPT ![i] =
                          IF res.statusCode # StatusOK THEN Fail(res, "unexpected status code")
                          ELSE IF readErr THEN Fail(res, "read")
                          ELSE IF closeErr THEN Fail(closed, "close")
                          ELSE [closed EXCEPT !.pc = "resample", !.recording = r]]
    /\ UNCHANGED c

\* Variant of resampleRecording: the channel count is not checked and the
\* decoded format is passed on to the encoder as it is.
resampleRecording_NoChannelCheck(i) ==
    /\ i \in 1..Len(tasks)
    /\ tasks[i].pc = "resample"
    /\ LET t == [tasks[i] EXCEPT !.stages = Append(@, "resampleRecording")]
           format == t.recording
       IN  \E encodeErr \in BOOLEAN :
             tasks' = [tasks EXCEPT ![i] =
                IF ~format.wav THEN Fail(t, "decode")
                ELSE IF encodeErr THEN Fail(t, "encode")
                ELSE [t EXCEPT !.pc = "transcribe",
                               !.resampled = [wav |-> TRUE,
                                              SampleRate |-> whisperSampleRate,
                                              NumChannels |-> format.NumChannels,
                                              Precision |-> format.Precision,
                                              speech |-> format.speech]]]
    /\ UNCHANGED c

\* resampleRecording, as called by processRecording (lines 107-111).
resampleRecording(i) ==
    /\ i \in 1..Len(tasks)
    /\ tasks[i].pc = "resample"
    /\ LET t == [tasks[i] EXCEPT !.stages = Append(@, "resampleRecording")]
           format == t.recording
       IN  \E encodeErr \in BOOLEAN :
             tasks' = [tasks EXCEPT ![i] =
                IF ~format.wav THEN Fail(t, "decode")
                ELSE IF format.NumChannels # whisperNumChans
                     THEN Fail(t, "unsupported number of channels")
                ELSE IF encodeErr THEN Fail(t, "encode")
                ELSE [t EXCEPT !.pc = "transcribe",
                               !.resampled = [wav |-> TRUE,
                                              SampleRate |-> whisperSampleRate,
                                              NumChannels |-> format.NumChannels,
                                              Precision |-> format.Precision,
                                              speech |-> format.speech]]]
    /\ UNCHANGED c

\* Variant of transcribeRecording: the stage is entered under a global lock
\* that is held until the segment loop of the holder ends.
transcribeRecording_Serialized(i) ==
    /\ i \in 1..Len(tasks)
    /\ tasks[i].pc = "transcribe"
    /\ \A j \in 1..Len(tasks) : tasks[j].pc # "segments"
    /\ LET t == [tasks[i] EXCEPT !.stages = Append(@, "transcribeRecording")]
           n == [t EXCEPT !.calls = Append(@, "NewContext")]
           p == [n EXCEPT !.calls = Append(@, "Process")]
       IN  \/ tasks' = [tasks EXCEPT ![i] = Fail(t, "pcm")]
           \/ tasks' = [tasks EXCEPT ![i] = Fail(n, "context")]
           \/ tasks' = [tasks EXCEPT ![i] = Fail(p, "process")]
           \/ tasks' = [tasks EXCEPT ![i] = [p EXCEPT !.pc = "segments", !.sb = <<>>]]
    /\ UNCHANGED c

\* transcribeRecording up to the segment loop (lines 180-197), as called by
\* processRecording (line 113): decode the PCM buffer, model.NewContext,
\* context.Process.  Each of the three can fail.
transcribeRecording(i) ==
    /\ i \in 1..Len(tasks)
    /\ tasks[i].pc = "transcribe"
    /\ LET t == [tasks[i] EXCEPT !.stages = Append(@, "transcribeRecording")]
           n == [t EXCEPT !.calls = Append(@, "NewContext")]
           p == [n EXCEPT !.calls = Append(@, "Process")]
       IN  \/ tasks' = [tasks EXCEPT ![i] = Fail(t, "pcm")]
           \/ tasks' = [tasks EXCEPT ![i] = Fail(n, "context")]
           \/ tasks' = [tasks EXCEPT ![i] = Fail(p, "process")]
           \/ tasks' = [tasks EXCEPT ![i] = [p EXCEPT !.pc = "segments", !.sb = <<>>]]
    /\ UNCHANGED c

\* Variant of the segment loop: a space is written between two segments.
NextSegment_Separator(i) ==
    /\ i \in 1..Len(tasks)
    /\ tasks[i].pc = "segments"
    /\ LET t == [tasks[i] EXCEPT !.calls = Append(@, "NextSegment")]
           k == Len(t.emitted)
           speech == t.resampled.speech
       IN  \/ tasks' = [tasks EXCEPT ![i] = Fail([t EXCEPT !.transcript = <<>>], "segment")]
           \/ /\ k >= Len(speech)
              /\ tasks' = [tasks EXCEPT ![i] = [t EXCEPT !.pc = "upload", !.transcript = t.sb]]
           \/ /\ k < Len(speech)
              /\ tasks' = [tasks EXCEPT ![i] =
                    [t EXCEPT !.emitted = Append(@, speech[k + 1]),
                              !.sb = IF k = 0 THEN speech[k + 1] ELSE @ \o <<" ">> \o speech[k + 1]]]
    /\ UNCHANGED c

\* Variant of the segment loop: an engine error ends the loop like io.EOF,
\* and what was collected so far is returned as the transcript.
NextSegment_ReturnsPartial(i) ==
    /\ i \in 1..Len(tasks)
    /\ tasks[i].pc = "segments"
    /\ LET t == [tasks[i] EXCEPT !.calls = Append(@, "NextSegment")]
           k == Len(t.emitted)
           speech == t.resampled.speech
       IN  \/ tasks' = [tasks EXCEPT ![i] = [t EXCEPT !.pc = "upload", !.transcript = t.sb]]
           \/ /\ k < Len(speech)
              /\ tasks' = [tasks EXCEPT ![i] =
                    [t EXCEPT !.emitted = Append(@, speech[k + 1]),
                              !.sb = @ \o speech[k + 1]]]
    /\ UNCHANGED c

\* Variant of the segment loop: at io.EOF the stage starts over with a new
\* context instead of returning.
NextSegment_StartsOver(i) ==
    /\ i \in 1..Len(tasks)
    /\ tasks[i].pc = "segments"
    /\ LET t == tasks[i]
           k == Len(t.emitted)
           speech == t.resampled.speech
       IN  \/ tasks' = [tasks EXCEPT ![i] = Fail([t EXCEPT !.transcript = <<>>], "segment")]
           \/ /\ k >= Len(speech)
              /\ tasks' = [tasks EXCEPT ![i] =
                    [t EXCEPT !.pc = "transcribe", !.emitted = <<>>, !.sb = <<>>,
                              !.stages = <<"downloadRecording", "resampleRecording">>,
                              !.calls = <<"GET">>]]
           \/ /\ k < Len(speech)
              /\ tasks' = [tasks EXCEPT ![i] =
                    [t EXCEPT !.emitted = Append(@, speech[k + 1]),
                              !.sb = @ \o speech[k + 1]]]
    /\ UNCHANGED c

\* One iteration of the segment loop (lines 198-206), and the return at
\* line 207 with processRecording's check of the result (lines 114-118).
\* The engine returns io.EOF once every segment was returned; any call may
\* return another error.
NextSegment(i) ==
    /\ i \in 1..Len(tasks)
    /\ tasks[i].pc = "segments"
    /\ LET t == [tasks[i] EXCEPT !.calls = Append(@, "NextSegment")]
           k == Len(t.emitted)
           speech == t.resampled.speech
       IN  \/ tasks' = [tasks EXCEPT ![i] = Fail([t EXCEPT !.transcript = <<>>], "segment")]
           \/ /\ k >= Len(speech)
              /\ tasks' = [tasks EXCEPT ![i] = [t EXCEPT !.pc = "upload", !.transcript = t.sb]]
           \/ /\ k < Len(speech)
              /\ tasks' = [tasks EXCEPT ![i] =
                    [t EXCEPT !.emitted = Append(@, speech[k + 1]),
                              !.sb = @ \o speech[k + 1]]]
    /\ UNCHANGED c

\* []rune(s): UTF-8 decoding.  A byte that starts no valid sequence decodes
\* to U+FFFD and is skipped alone.
RECURSIVE runesOf(_)
runesOf(s) ==
    IF s = <<>> THEN <<>>
    ELSE IF Len(s) >= 2 /\ s[1] = "C3" /\ s[2] = "A9"
         THEN <<"U+00E9">> \o runesOf(SubSeq(s, 3, Len(s)))
    ELSE IF Len(s) >= 3 /\ s[1] = "EF" /\ s[2] = "BF" /\ s[3] = "BD"
         THEN <<"U+FFFD">> \o runesOf(SubSeq(s, 4, Len(s)))
    ELSE IF s[1] \in {"C3", "A9", "EF", "BF", "BD"}
         THEN <<"U+FFFD">> \o runesOf(Tail(s))
    ELSE <<s[1]>> \o runesOf(Tail(s))

\* string(runes): UTF-8 encoding.
RECURSIVE stringOf(_)
stringOf(runes) ==
    IF runes = <<>> THEN <<>>
    ELSE (IF runes[1] = "U+00E9" THEN <<"C3", "A9">>
          ELSE IF runes[1] = "U+FFFD" THEN <<"EF", "BF", "BD">>
          ELSE <<runes[1]>>) \o stringOf(Tail(runes))

\* Variant of transcriptTitle: the length test and the cut count bytes.
transcriptTitle_Bytes(transcript) ==
    IF Len(transcript) <= maxTitleLen
    THEN transcript
    ELSE SubSeq(transcript, 1, maxTitleLen) \o Ellipsis

\* transcriptTitle
transcriptTitle(transcript) ==
    LET runes == runesOf(transcript)
    IN  IF Len(runes) <= maxTitleLen
        THEN transcript
        ELSE stringOf(SubSeq(runes, 1, maxTitleLen)) \o Ellipsis

\* uploadTranscript, as called by processRecording (lines 120-122): one
\* CreatePage call with the title property and one paragraph block.
uploadTranscript(i) ==
    /\ i \in 1..Len(tasks)
    /\ tasks[i].pc = "upload"
    /\ LET t == [tasks[i] EXCEPT !.stages = Append(@, "uploadTranscript"),
                                 !.calls = Append(@, "CreatePage"),
                                 !.pages = Append(@, [Title |-> transcriptTitle(tasks[i].transcript),
                                                      Children |-> <<tasks[i].transcript>>])]
       IN  \/ tasks' = [tasks EXCEPT ![i] = Fail(t, "upload")]
           \/ tasks' = [tasks EXCEPT ![i] = [t EXCEPT !.pc = "done"]]
    /\ UNCHANGED c

-----------------------------------------------------------------------------
Init ==
    /\ c = NewContext(NoRequest)
    /\ tasks = <<>>

Next ==
    \/ \E req \in Requests : ServeHTTP(req)
    \/ checkTwilioSignature
    \/ checkCallerWhitelist
    \/ callHandler
    \/ recordingHandler
    \/ recordingRespond
    \/ \E i \in 1..MaxTasks : downloadRecording(i)
    \/ \E i \in 1..MaxTasks : resampleRecording(i)
    \/ \E i \in 1..MaxTasks : transcribeRecording(i)
    \/ \E i \in 1..MaxTasks : NextSegment(i)
    \/ \E i \in 1..MaxTasks : uploadTranscript(i)

Spec == Init /\ [][Next]_vars

-----------------------------------------------------------------------------
(* Vocabulary of the properties.                                           *)

Range(s) == { s[k] : k \in 1..Len(s) }

IsPrefix(s, t) == Len(s) <= Len(t) /\ \A k \in 1..Len(s) : s[k] = t[k]

RECURSIVE Concat(_)
Concat(segments) ==
    IF segments = <<>> THEN <<>> ELSE Head(segments) \o Concat(Tail(segments))

\* Every field of the form has exactly one value.
SingleValued(req) == \A key \in DOMAIN req.form : Len(req.form[key]) = 1

\* The signature header is not the one Twilio computes for this request.
Tampered(req) ==
    req.signature # Signature(SignedUrl(ExternalHostname, req.path), FormPairs(req.form))

\* The request gets past the signature check.
Verified(req) == SingleValued(req) /\ ~Tampered(req)

Caller(req) == Get(req.form, "From")
RecordingStatus(req) == Get(req.form, "RecordingStatus")

Ran(i) == i \in Range(c.ran)

StageOrder ==
    <<"downloadRecording", "resampleRecording", "transcribeRecording", "uploadTranscript">>

EngineCalls(t) ==
    { k \in 1..Len(t.calls) : t.calls[k] \in {"NewContext", "Process", "NextSegment"} }

NotesCalls(t) == { k \in 1..Len(t.calls) : t.calls[k] = "CreatePage" }

-----------------------------------------------------------------------------
\* C1: a signature-valid POST to /call from a caller outside the allow-list
\* is answered with the rejection directive only: the /call handler never
\* runs for it and the record directive is never part of the response.
C1_CallRejectionOnly ==
    (Serving /\ c.req.path = callPath /\ Verified(c.req) /\ Caller(c.req) \notin allowed)
        => /\ ~Ran(routeHandlerIndex)
           /\ RecordDirective \notin Range(c.body)
           /\ (Finished => c.body = <<RejectDirective>>)

\* C2: a POST to /recording that reaches the Caller Authorizer with a From
\* outside the allow-list (or no From) is answered with the rejection
\* directive instead of proceeding: the handler does not run and no pipeline
\* task is launched.
C2_RecordingRejectedNoTask ==
    (Serving /\ c.req.path = recordingPath /\ Ran(whitelistCheckerIndex)
             /\ Caller(c.req) \notin allowed)
        => /\ RejectDirective \in Range(c.body)
           /\ ~Ran(routeHandlerIndex)
           /\ c.task = 0

\* C3: the signature check is the first handler to run, and for a request
\* that does not pass it neither the allow-list check nor the endpoint
\* handler runs: no directive is written and no pipeline task is launched.
C3_SignatureBeforeLogic ==
    Serving =>
        /\ (c.ran # <<>> => c.ran[1] = signatureCheckerIndex)
        /\ (~Verified(c.req) =>
              /\ Range(c.ran) \subseteq {signatureCheckerIndex}
              /\ c.body = <<>>
              /\ c.task = 0)

C3_Witness ==
    /\ Finished
    /\ c.req.path = recordingPath
    /\ Tampered(c.req) /\ SingleValued(c.req)
    /\ Caller(c.req) \in allowed /\ RecordingStatus(c.req) = "completed"
    /\ c.status = StatusForbidden
    /\ c.ran = <<signatureCheckerIndex>>

\* C4 (as claimed): every request with a tampered signature header is
\* answered 403 by the Signature Verifier, whatever its payload.
C4_TamperedAlwaysForbidden ==
    (Serving /\ Tampered(c.req) /\ Ran(signatureCheckerIndex))
        => c.status = StatusForbidden

\* C4 (amended): a request with a tampered signature header is answered 403
\* when every form field has exactly one value, also when the body is
\* malformed; when a field has two or more values it is answered 400.
C4_TamperedForbiddenUnlessMultiValued ==
    (Serving /\ Tampered(c.req) /\ Ran(signatureCheckerIndex))
        => /\ c.status = IF SingleValued(c.req) THEN StatusForbidden ELSE StatusBadRequest
           /\ c.index = abortIndex

C4_Witness ==
    /\ Finished
    /\ Tampered(c.req) /\ SingleValued(c.req) /\ c.req.bodyMalformed
    /\ c.req.signature # NoSignature
    /\ c.status = StatusForbidden

\* C5: a request with a form field of two or more values is answered 400
\* and the chain is aborted before the allow-list check: neither the Caller
\* Authorizer nor the endpoint handler runs.
C5_MultiValuedBadRequest ==
    (Serving /\ ~SingleValued(c.req) /\ Ran(signatureCheckerIndex))
        => /\ c.status = StatusBadRequest
           /\ c.index = abortIndex
           /\ c.ran = <<signatureCheckerIndex>>
           /\ c.body = <<>>
           /\ c.task = 0

C5_Witness ==
    /\ Finished
    /\ ~SingleValued(c.req) /\ ~Tampered(c.req)
    /\ c.status = StatusBadRequest

\* C6 (as claimed): a verified POST to /recording whose RecordingStatus is
\* not "completed" gets status 400 and launches no task, whatever the
\* caller's allow-list status.
C6_IncompleteAlways400 ==
    (Finished /\ c.req.path = recordingPath /\ Verified(c.req)
              /\ RecordingStatus(c.req) # "completed")
        => c.status = StatusBadRequest /\ c.task = 0

\* C6 (amended): such a request never launches a pipeline task, whatever the
\* caller's allow-list status; its status is 400 when the caller is on the
\* allow-list, and 200 with the rejection directive as the whole body when
\* the caller is not.
C6_IncompleteNoTask ==
    (Serving /\ c.req.path = recordingPath /\ Verified(c.req)
             /\ RecordingStatus(c.req) # "completed")
        => /\ c.task = 0
           /\ c.line = ""
           /\ (Finished /\ Caller(c.req) \in allowed
                 => c.status = StatusBadRequest /\ c.body = <<>>)
           /\ (Finished /\ Caller(c.req) \notin allowed
                 => c.status = StatusOK /\ c.body = <<RejectDirective>>)

C6_Witness ==
    /\ Finished
    /\ c.req.path = recordingPath /\ Verified(c.req)
    /\ RecordingStatus(c.req) = "failed" /\ Caller(c.req) \in allowed
    /\ c.status = StatusBadRequest
    /\ Ran(routeHandlerIndex)

C8_ResponseIndependentOfPipeline ==
    /\ [](c.line = "respond" => ENABLED recordingRespond)
    /\ []((Finished /\ c.task # 0) =>
            /\ c.status = StatusOK
            /\ c.body = IF Caller(c.req) \in allowed
                        THEN <<Thanks>> ELSE <<RejectDirective, Thanks>>)
    /\ [][(\E i \in 1..Len(tasks) : tasks'[i] # tasks[i]) => c' = c]_vars

C8_Witness ==
    /\ Finished
    /\ Caller(c.req) \in allowed
    /\ c.status = StatusOK /\ c.body = <<Thanks>>
    /\ c.task \in 1..Len(tasks)
    /\ tasks[c.task].pc = "failed"
    /\ tasks[c.task].err = "upload"

\* C9: within one invocation the stages run in the order download, resample,
\* transcribe, upload, each at most once; an invocation that logged an error
\* has failed and never moves again; engine and notes-service calls are made
\* only in their own stages; a fetch answered with a status other than 200
\* ends the invocation with the GET as its only external call.
C9_StagesInOrder ==
    /\ [](\A i \in 1..Len(tasks) :
            LET t == tasks[i]
            IN  /\ IsPrefix(t.stages, StageOrder)
                /\ (t.err # "" <=> t.pc = "failed")
                /\ (EngineCalls(t) # {} => "transcribeRecording" \in Range(t.stages))
                /\ (NotesCalls(t) # {} => "uploadTranscript" \in Range(t.stages))
                /\ Cardinality(NotesCalls(t)) <= 1
                /\ (t.statusCode \notin {0, StatusOK} =>
                      /\ t.pc = "failed"
                      /\ t.calls = <<"GET">>
                      /\ t.pages = <<>>))
    /\ [][\A i \in 1..Len(tasks) : tasks[i].pc = "failed" => tasks'[i] = tasks[i]]_vars

C9_Witness ==
    \E i \in 1..Len(tasks) :
        /\ tasks[i].statusCode = 404
        /\ tasks[i].pc = "failed"
        /\ tasks[i].stages = <<"downloadRecording">>
        /\ tasks[i].calls = <<"GET">>

\* C10: an invocation whose four stages all succeed makes exactly one
\* create-page call, and the text of its single body block is the
\* concatenation, in emission order and with nothing added, of all segments
\* the engine returned before io.EOF.
C10_OnePageWithFullTranscript ==
    \A i \in 1..Len(tasks) :
        tasks[i].pc = "done" =>
            /\ Cardinality(NotesCalls(tasks[i])) = 1
            /\ Len(tasks[i].pages) = 1
            /\ tasks[i].pages[1].Children = <<Concat(tasks[i].emitted)>>
            /\ tasks[i].emitted = tasks[i].resampled.speech

C10_Witness ==
    \E i \in 1..Len(tasks) :
        /\ tasks[i].pc = "done"
        /\ Len(tasks[i].emitted) = 2
        /\ tasks[i].stages = StageOrder


\* The calls of NextSegment a task has made.
NextSegmentCalls(t) == { k \in 1..Len(t.calls) : t.calls[k] = "NextSegment" }

\* C11: no partial transcript is published.  A task that failed inside
\* transcribeRecording (PCM decode, NewContext, Process or any NextSegment,
\* also after segments were returned) has made no create-page call, and
\* every text passed to the notes service is the concatenation of all the
\* segments of a sequence that the engine ended with io.EOF.
C11_NoPartialTranscript ==
    \A i \in 1..Len(tasks) :
        LET t == tasks[i]
        IN  /\ (t.err \in {"pcm", "context", "process", "segment"} =>
                  t.pages = <<>> /\ NotesCalls(t) = {})
            /\ \A k \in 1..Len(t.pages) :
                  /\ t.pages[k].Children = <<Concat(t.emitted)>>
                  /\ t.emitted = t.resampled.speech
                  /\ Cardinality(NextSegmentCalls(t)) = Len(t.emitted) + 1

C11_Witness ==
    \E i \in 1..Len(tasks) :
        /\ tasks[i].err = "segment"
        /\ Len(tasks[i].emitted) = 1
        /\ tasks[i].sb # <<>>
        /\ tasks[i].pages = <<>>


-----------------------------------------------------------------------------
(* Title derivation on transcripts around the 32 code point limit: the     *)
(* upload stage started on a transcript of up to MaxTranscriptLen code     *)
(* points, of which one may be a two-byte character or an invalid byte.    *)

\* Bound: longest transcript, in code points.
MaxTranscriptLen == 34

TitleInput(n, j, special) ==
    Concat([k \in 1..n |-> IF k = j THEN special ELSE <<"a">>])

TitleInputs ==
    { TitleInput(n, j, special) :
        n \in 0..MaxTranscriptLen, j \in 0..MaxTranscriptLen,
        special \in { <<"C3", "A9">>, <<"A9">>, <<"C3">> } }

InitTitle ==
    /\ c = NewContext(NoRequest)
    /\ \E transcript \in TitleInputs :
         tasks = << [NewTask(RecordingUrlValue) EXCEPT !.pc = "upload",
                                                      !.transcript = transcript] >>

NextTitle == uploadTranscript(1)

SpecTitle == InitTitle /\ [][NextTitle]_vars

\* C12: the title of a transcript of at most 32 code points is the
\* transcript unchanged; the title of a longer transcript is its first 32
\* code points followed by "..."; no title is longer than 35 code points.
C12_TitleDerivation ==
    \A i \in 1..Len(tasks) : \A k \in 1..Len(tasks[i].pages) :
        LET transcript == tasks[i].pages[k].Children[1]
            title == tasks[i].pages[k].Title
            runes == runesOf(transcript)
        IN  /\ (Len(runes) <= 32 => title = transcript)
            /\ (Len(runes) > 32 =>
                  runesOf(title) = SubSeq(runes, 1, 32) \o <<".", ".", ".">>)
            /\ Len(runesOf(title)) <= 35

C12_Witness ==
    \E i \in 1..Len(tasks) :
        /\ tasks[i].pages # <<>>
        /\ Len(runesOf(tasks[i].transcript)) = 33
        /\ Len(tasks[i].transcript) = 34
        /\ Len(runesOf(tasks[i].pages[1].Title)) = 35


-----------------------------------------------------------------------------
\* A task is inside the engine calls of its transcription stage from its
\* NewContext / Process calls until NextSegment returns io.EOF or an error.
InEngine(t) == t.pc = "segments"

\* C13: the calls into the shared model are serialized: at most one task at
\* a time is inside the engine calls of the transcription stage.
C13_EngineCallsSerialized ==
    Cardinality({ i \in 1..Len(tasks) : InEngine(tasks[i]) }) <= 1


-----------------------------------------------------------------------------
\* C14 (as claimed): for any sequence of callbacks, also when the same
\* completed callback (same RecordingUrl) is delivered more than once, at
\* most one task is created for a recording and at most one note is
\* published for it.
C14_OneTaskPerRecording ==
    \A i, j \in 1..Len(tasks) :
        (i # j /\ tasks[i].url # "") => tasks[i].url # tasks[j].url

\* C14 (amended): every handled callback starts at most one task, for the
\* RecordingUrl of that callback, and every task publishes at most one note;
\* callbacks are not de-duplicated.
C14_OneTaskPerCallback ==
    /\ [](\A i \in 1..Len(tasks) :
            Len(tasks[i].pages) <= 1 /\ Cardinality(NotesCalls(tasks[i])) <= 1)
    /\ []((Serving /\ c.task # 0) =>
            /\ c.task \in 1..Len(tasks)
            /\ tasks[c.task].url = Get(c.req.form, "RecordingUrl"))
    /\ [][Len(tasks') # Len(tasks) =>
            /\ Len(tasks') = Len(tasks) + 1
            /\ c.task = 0
            /\ c'.task = Len(tasks')
            /\ c'.req = c.req]_vars

C14_Witness ==
    /\ Len(tasks) >= 2
    /\ tasks[1].url = RecordingUrlValue /\ tasks[2].url = RecordingUrlValue
    /\ tasks[1].pc = "done" /\ tasks[2].pc = "done"
    /\ Len(tasks[1].pages) = 1 /\ Len(tasks[2].pages) = 1


-----------------------------------------------------------------------------
\* The next step of pipeline task i, and the next step of the handler chain.
TaskStep(i) ==
    \/ downloadRecording(i)
    \/ resampleRecording(i)
    \/ transcribeRecording(i)
    \/ NextSegment(i)
    \/ uploadTranscript(i)

HandlerStep ==
    \/ checkTwilioSignature
    \/ checkCallerWhitelist
    \/ callHandler
    \/ recordingHandler
    \/ recordingRespond

Terminal(t) == t.pc \in {"done", "failed"}

-----------------------------------------------------------------------------
\* C16: the audio handed to transcribeRecording has one channel, the
\* engine's sample rate and the precision of the input; a recording decoded
\* with a channel count other than 1 makes resampleRecording fail, with no
\* downmix, and the task makes no engine call.
C16_NormalizedAudioOrFailure ==
    \A i \in 1..Len(tasks) :
        LET t == tasks[i]
        IN  /\ ("transcribeRecording" \in Range(t.stages) \/ t.pc = "transcribe") =>
                  /\ t.resampled.wav
                  /\ t.resampled.NumChannels = 1
                  /\ t.resampled.SampleRate = 16000
                  /\ t.resampled.Precision = t.recording.Precision
            /\ ("resampleRecording" \in Range(t.stages)
                    /\ t.recording.wav /\ t.recording.NumChannels # 1) =>
                  /\ t.pc = "failed"
                  /\ t.err = "unsupported number of channels"
                  /\ t.resampled = NoAudio
                  /\ EngineCalls(t) = {}

C16_Witness ==
    \E i \in 1..Len(tasks) :
        /\ tasks[i].recording.NumChannels = 2
        /\ tasks[i].pc = "failed"
        /\ tasks[i].err = "unsupported number of channels"
        /\ tasks[i].stages = <<"downloadRecording", "resampleRecording">>


-----------------------------------------------------------------------------
\* C17 (as claimed): the Signature Verifier answers 401 Unauthorized to
\* every request in which a form field has zero or several values.
C17_MultiValuedUnauthorized ==
    (Finished /\ ~SingleValued(c.req)) => c.status = 401

\* C17 (amended): the Signature Verifier answers 400 Bad Request to every
\* request in which a form field has two or more values, whether or not its
\* signature is genuine; the field is refused, not coerced to its first
\* value: the signature is not evaluated and no later handler sees the
\* request.  No response of the server has status 401.
C17_MultiValuedRefusedWith400 ==
    /\ (Serving => c.status # 401 /\ c.wstatus # 401)
    /\ (Finished /\ ~SingleValued(c.req)) =>
          /\ c.status = StatusBadRequest
          /\ c.status # StatusForbidden
          /\ ~Ran(whitelistCheckerIndex) /\ ~Ran(routeHandlerIndex)
          /\ c.errors = <<>>

C17_Witness ==
    /\ Finished
    /\ "RecordingStatus" \in DOMAIN c.req.form
    /\ Len(c.req.form["RecordingStatus"]) = 2
    /\ Tampered(c.req)
    /\ c.status = StatusBadRequest


-----------------------------------------------------------------------------
(* Termination.  SpecLive serves the /recording callbacks that start a   *)
(* task and adds what "each external call returns" and the Go scheduler    *)
(* give: a pipeline goroutine that can take its next step eventually takes *)
(* it.  Nothing is assumed about requests arriving or about handlers.      *)

LiveRequests ==
    { r \in Requests :
        /\ r.path = recordingPath
        /\ ~r.bodyMalformed
        /\ Verified(r)
        /\ RecordingStatus(r) = "completed" }

NextLive ==
    \/ \E req \in LiveRequests : ServeHTTP(req)
    \/ checkTwilioSignature
    \/ checkCallerWhitelist
    \/ recordingHandler
    \/ recordingRespond
    \/ \E i \in 1..MaxTasks : TaskStep(i)

SpecLive ==
    /\ Init
    /\ [][NextLive]_vars
    /\ \A i \in 1..MaxTasks : WF_vars(TaskStep(i))

\* The position of a task in Fetching -> Normalizing -> Transcribing ->
\* Publishing -> Done / Failed.
PcRank(t) ==
    CASE t.pc = "download"   -> 0
      [] t.pc = "resample"   -> 1
      [] t.pc = "transcribe" -> 2
      [] t.pc = "segments"   -> 3
      [] t.pc = "upload"     -> 4
      [] OTHER               -> 5

Advances(t, u) ==
    \/ PcRank(u) > PcRank(t)
    \/ PcRank(u) = PcRank(t) /\ t.pc = "segments" /\ Len(u.emitted) > Len(t.emitted)

\* C18: every launched invocation eventually reaches Done or Failed when
\* its external calls return; every step of a task moves it forward (to a
\* later stage, or to the next segment inside the loop), never back.
C18_EveryTaskTerminates ==
    /\ \A i \in 1..MaxTasks :
          (Len(tasks) >= i) ~> (Len(tasks) >= i /\ Terminal(tasks[i]))
    /\ [][\A i \in 1..Len(tasks) :
            tasks'[i] # tasks[i] => Advances(tasks[i], tasks'[i])]_vars

C18_Witness ==
    \E i \in 1..Len(tasks) :
        /\ tasks[i].pc = "done"
        /\ Cardinality(NextSegmentCalls(tasks[i])) = 3
        /\ \E j \in 1..Len(tasks) : tasks[j].pc = "failed" /\ tasks[j].err = "segment"


-----------------------------------------------------------------------------
\* C19: on every return path of downloadRecording on which the GET produced
\* a response (status 200 and a full read, another status, or a read error)
\* the response body is closed when the function returns.
C19_BodyClosedOnReturn ==
    \A i \in 1..Len(tasks) :
        (tasks[i].pc # "download" /\ tasks[i].statusCode # 0) => ~tasks[i].bodyOpen

\* C20: a verified /recording POST of an allow-listed caller with
\* RecordingStatus=completed and no RecordingUrl is acknowledged with 200
\* and starts one task with the empty URL; a task with the empty URL fails
\* in the fetch, without a response, and makes no engine and no notes call.
C20_EmptyUrlFailsInFetch ==
    /\ (Finished /\ c.req.path = recordingPath /\ Verified(c.req)
                 /\ Caller(c.req) \in allowed /\ RecordingStatus(c.req) = "completed"
                 /\ Get(c.req.form, "RecordingUrl") = "") =>
          /\ c.status = StatusOK
          /\ c.body = <<Thanks>>
          /\ c.task \in 1..Len(tasks)
          /\ tasks[c.task].url = ""
    /\ \A i \in 1..Len(tasks) :
          tasks[i].url = "" =>
              /\ tasks[i].pc \in {"download", "failed"}
              /\ tasks[i].pc = "failed" =>
                    /\ tasks[i].err = "do"
                    /\ tasks[i].statusCode = 0
                    /\ tasks[i].stages = <<"downloadRecording">>
                    /\ EngineCalls(tasks[i]) = {}
                    /\ NotesCalls(tasks[i]) = {} /\ tasks[i].pages = <<>>

C20_Witness ==
    /\ Finished
    /\ c.req.path = recordingPath /\ Verified(c.req)
    /\ "RecordingUrl" \notin DOMAIN c.req.form
    /\ c.status = StatusOK /\ c.body = <<Thanks>>
    /\ c.task \in 1..Len(tasks)
    /\ tasks[c.task].url = ""
    /\ tasks[c.task].pc = "failed"

====
